---- MODULE Spec2Model ----
(***************************************************************************)
(* The workshop_items command of s7forge (src/src/commands/                *)
(* workshop_items.rs): the item cache file, the fetch plan, the bridge     *)
(* between the blocking worker and the cooperative loop, the merge of the  *)
(* fetched records into the cache and the ordered, enriched output.        *)
(*                                                                         *)
(* Two granularities of the same command are specified.  Spec runs the     *)
(* command with the bridge (lines 108-161) as one step, RunBridge, over    *)
(* every cache file and request; SpecBridge runs it with the worker and    *)
(* the cooperative loop interleaved step by step.  SpecPaths runs the path *)
(* commands (app_installation_path, workshop_path, steam_library_paths)    *)
(* and their cache files.                                                  *)
(***************************************************************************)
EXTENDS Integers, Sequences, FiniteSets, TLC

\* ---------------------------------------------------------------- bounds
\* the longest request, and the days the wall clock spans
MaxReqLen == 2
MaxDays == 1
\* the hours the wall clock spans while the path commands run
MaxHours == 1
\* the most subcommands of a combined command
MaxSubcommands == 2

\* ------------------------------------------------------ program constants
CacheDurationSecs == 86400
QueueCap == 32
TimeoutSecs == 30
PathCacheDurationSecs == 3600

\* ------------------------------------------------------------ data model
\* the published file ids (u64) of the model
Ids == {1, 2}
Owners == {1, 2}
FileTypes == {"Community", "Collection"}

\* The owner (steam_id64) of the item the platform holds under an id
OwnerOf(id) == (id % 2) + 1

\* core::workshop_item::workshop::WorkshopItem, the fields the command reads:
\* the records the platform can return
WorkshopItem ==
    {[published_file_id |-> id, file_type |-> ft, owner |-> OwnerOf(id)] :
        id \in Ids, ft \in FileTypes}

\* item_ids: Vec<u64>
Requests == UNION {[1..n -> Ids] : n \in 0..MaxReqLen}

\* values of SystemTime::now() in seconds since the epoch
Times == {t \in {d * CacheDurationSecs + e : d \in 0..MaxDays, e \in {-1, 0}} : t >= 0}

EmptyMap == [i \in {} |-> i]

\* The subtraction wrapping round below zero (at the width of the model's
\* integers)
WrappingSub(a, b) == IF a >= b THEN a - b ELSE 2147483647 - (b - a) + 1

\* u64::saturating_sub
SaturatingSub(a, b) == IF a >= b THEN a - b ELSE 0

\* The cache file workshop_items_cache.bin: absent, undecodable, or an
\* encoded WorkshopItemCache
NoFile == [st |-> "absent", items |-> EmptyMap, deleted_items |-> {}, timestamp |-> 0]
CorruptFile == [st |-> "corrupt", items |-> EmptyMap, deleted_items |-> {}, timestamp |-> 0]
\* WorkshopItemCache leaving the records out of the snapshot
WorkshopItemCacheNoItems(items, deleted, ts) ==
    [st |-> "ok", items |-> EmptyMap, deleted_items |-> deleted, timestamp |-> ts]

WorkshopItemCache(items, deleted, ts) ==
    [st |-> "ok", items |-> items, deleted_items |-> deleted, timestamp |-> ts]

\* Result<T, String>
Ok(v) == [ok |-> TRUE, val |-> v, err |-> ""]
Err(e) == [ok |-> FALSE, val |-> <<>>, err |-> e]

Range(s) == {s[i] : i \in DOMAIN s}

\* ------------------------------------------------------- pure functions

\* SnapshotValid with the comparison made inclusive
SnapshotValidInclusive(f, t) ==
    f.st = "ok" /\ SaturatingSub(t, f.timestamp) <= CacheDurationSecs

\* lines 58-67: the decoded cache entry is used iff
\* now.saturating_sub(cache_entry.timestamp) < cache_duration_secs
SnapshotValid(f, t) ==
    f.st = "ok" /\ SaturatingSub(t, f.timestamp) < CacheDurationSecs

\* LoadedItems taking the records of a file that could not be read
LoadedItemsUnread(f, readable, t) ==
    IF SnapshotValid(f, t) THEN f.items ELSE EmptyMap

\* lines 54-73: cached_items after the load
LoadedItems(f, readable, t) ==
    IF readable /\ SnapshotValid(f, t) THEN f.items ELSE EmptyMap

\* LoadedDeleted forgetting the negative markers of the snapshot
LoadedDeletedNone(f, readable, t) == {}

\* lines 55-73: deleted_items after the load
LoadedDeleted(f, readable, t) ==
    IF readable /\ SnapshotValid(f, t) THEN f.deleted_items ELSE {}

\* IdsToFetch handing nothing to the fetch: the snapshot alone answers
IdsToFetchNone(ids, items, deleted) == <<>>

\* IdsToFetch with the test of deleted_items left out
IdsToFetchIgnoringDeleted(ids, items, deleted) ==
    SelectSeq(ids, LAMBDA id : id \notin DOMAIN items)

\* lines 75-79: item_ids.iter().filter(..).cloned().collect()
IdsToFetch(ids, items, deleted) ==
    SelectSeq(ids, LAMBDA id : id \notin DOMAIN items /\ id \notin deleted)

\* What the completion handler can be given for a query of ids: one optional
\* record per queried id (line 119-124, WorkshopItemsResult.items)
QueryResults(ids) ==
    {r \in [1..Len(ids) -> {<<>>} \cup {<<it>> : it \in WorkshopItem}] :
        \A i \in 1..Len(ids) :
            r[i] # <<>> => r[i][1].published_file_id = ids[i]}

\* What the platform can hold under each id: a record of that id, or nothing
Holdings ==
    {h \in [Ids -> {<<>>} \cup {<<it>> : it \in WorkshopItem}] :
        \A id \in Ids : h[id] # <<>> => h[id][1].published_file_id = id}

\* The platform's content changes at any time
Changing == [fixed |-> FALSE, holds |-> [id \in Ids |-> <<>>]]
\* The platform holds h all along
Unchanging(h) == [fixed |-> TRUE, holds |-> h]

\* FetchedItems keeping the record of every filled slot
FetchedItemsAll(slots) ==
    LET filled == SelectSeq(slots, LAMBDA x : x # <<>>)
    IN [i \in DOMAIN filled |-> filled[i][1]]

\* lines 163-170: filter_map keeping Some(it) with it.file_type == "Community"
RECURSIVE FetchedItems(_)
FetchedItems(slots) ==
    IF slots = <<>> THEN <<>>
    ELSE (IF Head(slots) # <<>> /\ Head(slots)[1].file_type = "Community"
          THEN <<Head(slots)[1]>> ELSE <<>>) \o FetchedItems(Tail(slots))

\* lines 173-174
FetchedIds(fetched) == {fetched[i].published_file_id : i \in DOMAIN fetched}

\* InsertItems inserting nothing
InsertItemsNone(items, fetched) == items

\* lines 176-178: cached_items.insert(item.published_file_id, item.clone())
RECURSIVE InsertItems(_, _)
InsertItems(items, fetched) ==
    IF fetched = <<>> THEN items
    ELSE InsertItems(
            [id \in DOMAIN items \cup {Head(fetched).published_file_id} |->
                IF id = Head(fetched).published_file_id THEN Head(fetched)
                ELSE items[id]],
            Tail(fetched))

\* MarkDeleted marking nothing
MarkDeletedNone(deleted, tracking, fetched_ids) == deleted

\* MarkDeleted marking every queried id, fetched or not
MarkDeletedAll(deleted, tracking, fetched_ids) ==
    deleted \cup Range(tracking)

\* lines 181-185: ids queried that returned nothing are marked deleted
MarkDeleted(deleted, tracking, fetched_ids) ==
    deleted \cup {tracking[i] : i \in {j \in DOMAIN tracking : tracking[j] \notin fetched_ids}}

\* FinalItems walking the map in key order instead of the request
RECURSIVE ItemsByKey(_, _)
ItemsByKey(keys, items) ==
    IF keys = {} THEN <<>>
    ELSE LET k == CHOOSE x \in keys : \A y \in keys : x <= y
         IN <<items[k]>> \o ItemsByKey(keys \ {k}, items)

FinalItemsByKey(ids, items) == ItemsByKey(Range(ids) \cap DOMAIN items, items)

\* lines 82-85 and 199-202: item_ids.iter().filter_map(|id| cached_items.get(id).cloned())
RECURSIVE FinalItems(_, _)
FinalItems(ids, items) ==
    IF ids = <<>> THEN <<>>
    ELSE (IF Head(ids) \in DOMAIN items THEN <<items[Head(ids)]>> ELSE <<>>)
         \o FinalItems(Tail(ids), items)

\* lines 86-89 and 204-207
CreatorIds(final) == [i \in DOMAIN final |-> final[i].owner]

\* The display name the platform knows for an owner
PersonaName(o) == IF o = 1 THEN "alice" ELSE "bob"

\* What fetch_creator_names can answer (lines 91, 209): an error, or a map
\* from some of the given ids to their names
CreatorNameAnswers(creator_ids) ==
    {Err("fetch_creator_names failed")} \cup
    {Ok([o \in S |-> PersonaName(o)]) : S \in SUBSET Range(creator_ids)}

\* lines 93-103 and 211-221
EnhancedWorkshopItem(item, creator_id, creator_name) ==
    [workshop_item |-> item, creator_id |-> creator_id, creator_name |-> creator_name]

\* Enhance giving every record the sentinel as soon as one owner has no name
EnhanceAllOrNothing(final, creator_names) ==
    [i \in DOMAIN final |->
        EnhancedWorkshopItem(
            final[i],
            final[i].owner,
            IF \A j \in DOMAIN final : final[j].owner \in DOMAIN creator_names
            THEN creator_names[final[i].owner] ELSE "[unknown]")]

\* lines 93-103 and 211-221: the name of the owner, or the sentinel
Enhance(final, creator_names) ==
    [i \in DOMAIN final |->
        EnhancedWorkshopItem(
            final[i],
            final[i].owner,
            IF final[i].owner \in DOMAIN creator_names
            THEN creator_names[final[i].owner] ELSE "[unknown]")]

\* ------------------------------------------------- the path commands: data

\* app_id: u32
AppIds == {1, 2}

\* values of SystemTime::now() while the path commands run
PathTimes == {t \in {h * PathCacheDurationSecs + e : h \in 0..MaxHours, e \in {-1, 0}} : t >= 0}

\* The cache files app_install_path_cache.bin, workshop_path_cache.bin and
\* library_paths_cache.bin
PathCacheKinds == {"app_install_path", "workshop_path", "library_paths"}
MapCacheKinds == {"app_install_path", "workshop_path"}

\* The cache file of a path command
PathCacheOf(c) ==
    CASE c = "app_installation_path" -> "app_install_path"
      [] c = "workshop_path" -> "workshop_path"
      [] OTHER -> "library_paths"

\* A path cache file: absent, undecodable, or an encoded AppInstallPathCache,
\* WorkshopPathCache (paths: a map) or LibraryPathsCache (paths: a list)
NoPathFile == [st |-> "absent", paths |-> EmptyMap, timestamp |-> 0]
CorruptPathFile == [st |-> "corrupt", paths |-> EmptyMap, timestamp |-> 0]
PathCache(paths, ts) == [st |-> "ok", paths |-> paths, timestamp |-> ts]

\* Option<T>
Some(v) == <<v>>
None == <<>>

\* What the scan of app_installation_path can compute (lines 46-84): the
\* install path, or an error that is cached like a path
ManifestError == "Found manifest file but couldn't parse installation directory"
NotInstalledError == "App is not installed or manifest file not found"
InstallResults == {Ok("steamapps/common/app"), Err(ManifestError), Err(NotInstalledError)}

\* What the scan of workshop_path can compute (lines 44-91)
WorkshopPathResults == {Some("steamapps/workshop/content/app"), None}

\* What the scan of steam_library_paths ends with (lines 39-66): the library
\* folders, or the error of steam_install_paths or of reading libraryfolders.vdf
LibraryScans ==
    {Ok(<<"lib">>), Err("steam_install_paths failed"),
     Err("Failed to read library metadata file")}

\* What encoding and writing a cache file can end with
WriteOutcomes == {"encode_failed", "written", "write_failed", "write_torn"}

\* if let Ok(encoded) = encode_to_vec(..) { let _ = fs::write(..) }: the file
\* after the attempt to write new over f
WriteFile(f, new, io) ==
    CASE io = "written" -> new
      [] io = "write_torn" -> CorruptPathFile
      [] OTHER -> f

\* if cache_path.exists() { if let Ok(..) = fs::read(&cache_path) ..: the
\* calls of fs::read on the cache file f
ReadOps(f, dir_ok) == IF dir_ok /\ f.st # "absent" THEN <<"read">> ELSE <<>>

\* if let Ok(encoded) = encode_to_vec(..) { let _ = fs::write(..) }: the calls
\* of fs::write
WriteOps(io) == IF io = "encode_failed" THEN <<>> ELSE <<"write">>

\* PathSnapshotValid with the comparison made inclusive
PathSnapshotValidInclusive(f, t) ==
    f.st = "ok" /\ SaturatingSub(t, f.timestamp) <= PathCacheDurationSecs

\* app_installation_path.rs 24-33, workshop_path.rs 24-33, steam_library_paths.rs
\* 22-31: now.saturating_sub(cache.timestamp) < cache_duration_secs
PathSnapshotValid(f, t) ==
    f.st = "ok" /\ SaturatingSub(t, f.timestamp) < PathCacheDurationSecs

\* app_installation_path.rs 19-41 (workshop_path.rs 19-41): the cached result
\* that the load returns, if any
CachedResult(f, dir_ok, readable, t, app) ==
    IF dir_ok /\ readable /\ PathSnapshotValid(f, t) /\ app \in DOMAIN f.paths
    THEN Some(f.paths[app]) ELSE None

\* ReloadedPaths keeping the entries of a snapshot less than an hour old only
ReloadedPathsIfValid(f, readable, t) ==
    IF readable /\ PathSnapshotValid(f, t) THEN f.paths ELSE EmptyMap

\* app_installation_path.rs 91-120 (workshop_path.rs 98-127): the map the save
\* starts from: the file is read and decoded again, its age is not looked at
ReloadedPaths(f, readable, t) ==
    IF readable /\ f.st = "ok" THEN f.paths ELSE EmptyMap

\* app_installation_path.rs 122-126 (workshop_path.rs 129-133): the snapshot
\* the save encodes
SavedSnapshot(f, readable, app, res, t) ==
    PathCache([k \in DOMAIN ReloadedPaths(f, readable, t) \cup {app} |->
                 IF k = app THEN res ELSE ReloadedPaths(f, readable, t)[k]], t)

\* What a call of steam_library_paths meets
LibraryEnvs ==
    [dir_ok : BOOLEAN, readable : BOOLEAN, scan : LibraryScans, save_dir_ok : BOOLEAN,
     io : WriteOutcomes]

\* steam_library_paths.rs 15-88: what the call returns and the cache file it
\* leaves, with the cache file f, the clock t and the environment e
SteamLibraryPathsRun(f, t, e) ==
    IF e.dir_ok /\ e.readable /\ PathSnapshotValid(f, t)
    THEN [res |-> Ok(f.paths), file |-> f, hit |-> TRUE]
    ELSE IF ~e.scan.ok
    THEN [res |-> e.scan, file |-> f, hit |-> FALSE]
    ELSE [res |-> e.scan,
          file |-> IF e.save_dir_ok THEN WriteFile(f, PathCache(e.scan.val, t), e.io) ELSE f,
          hit |-> FALSE]

\* ------------------------------------------------------ the process: data

\* cli::Command, the commands that use a cache file
SingleCommands ==
    {[kind |-> "workshop-items", item_ids |-> <<1>>, app_id |-> 1]} \cup
    {[kind |-> k, item_ids |-> <<>>, app_id |-> 1] :
        k \in {"workshop-path", "app-installation-path", "steam-library-paths"}}

\* cli.rs 419-427 (KNOWN_COMMANDS): the subcommands of a combined command
Subcommands == {c \in SingleCommands : c.kind \in {"workshop-items", "workshop-path"}}

\* What parse_args can return (main.rs 12): a command, a combined command or
\* an error
ParsedCommands ==
    {[parsed |-> TRUE, combined |-> FALSE, commands |-> <<c>>] : c \in SingleCommands} \cup
    {[parsed |-> TRUE, combined |-> TRUE, commands |-> cs] :
        cs \in UNION {[1..n -> Subcommands] : n \in 1..MaxSubcommands}} \cup
    {[parsed |-> FALSE, combined |-> FALSE, commands |-> <<>>]}

\* serde_json::to_string_pretty: the JSON text of a value
ToStringPretty(v) == [json |-> v]
\* serde_json::from_str::<Value>: the value of a JSON text
FromStr(text) == IF DOMAIN text = {"json"} THEN Ok(text.json) ELSE Err("not JSON")

\* main.rs 40-49: the key of subcommand c at position idx (from 0);
\* "workshop-path" carries no index (idx -1 here), "workshop-items-{idx}" does
Key(c, idx) ==
    IF c.kind = "workshop-path"
    THEN [name |-> "workshop-path", idx |-> -1]
    ELSE [name |-> c.kind, idx |-> idx]

\* serde_json::Map::insert
MapInsert(map, key, value) ==
    [k \in DOMAIN map \cup {key} |-> IF k = key THEN value ELSE map[k]]

\* main.rs 52-61: the entry for a subcommand's outcome: the value parsed from
\* its output (the output itself as a JSON string when it does not parse), or
\* the object {"error": ..}
Entry(res) ==
    IF res.ok
    THEN [value |-> IF FromStr(res.val).ok THEN FromStr(res.val).val ELSE res.val]
    ELSE [error |-> res.err]

\* The process before main runs
NoProc ==
    [phase |-> "none", command |-> [parsed |-> FALSE, combined |-> FALSE, commands |-> <<>>],
     idx |-> 0, results |-> EmptyMap, executed |-> <<>>, returned |-> Ok(<<>>),
     stdout |-> <<>>, stderr |-> <<>>, exit |-> -1]

\* ----------------------------------------------------------------- state
VARIABLES
    now,            \* the wall clock (SystemTime::now, seconds)
    file,           \* workshop_items_cache.bin
    fetched_at,     \* for each id with an entry in the file: the time of the fetch
                    \* that produced the entry (history)
    pc,             \* where the invocation of workshop_items stands
    item_ids,       \* the argument item_ids
    load_env,       \* what the load met: the clock it read, whether fs::read
                    \* succeeded, and the fetch times of the entries taken over
    cached_items,   \* the local cached_items
    deleted_items,  \* the local deleted_items
    ids_to_fetch,   \* the local ids_to_fetch (and ids_for_tracking, its clone)
    items_result,   \* the local items_result, once unwrapped (line 161)
    result,         \* what workshop_items returned
    client_inits,   \* calls of steam_manager::initialize_client in this invocation
    spawned,        \* spawn_blocking calls in this invocation
    queried,        \* the id lists given to ugc.query_items in this invocation
    cache_io,       \* the cache directory and cache file operations of this invocation
    resolved,       \* the calls of fetch_creator_names in this invocation: the id
                    \* list given and the answer
    written,        \* whether this invocation replaced the cache file
    prev,           \* the last invocation that fetched, wrote the file and returned Ok
    wpc,            \* where the worker closure stands
    handler,        \* the completion handler given to fetch: none, registered, called
    rx_inner,       \* the std::sync::mpsc result channel
    signals,        \* the pump signals buffered in the tokio mpsc channel
    rx_open,        \* whether the receiver rx of the signal channel is alive
    task,           \* the JoinHandle's output, once the worker closure ended
    elapsed,        \* start_time.elapsed(), in seconds
    pumping,        \* the calls of steam_manager::run_callbacks in progress
    path_files,     \* the cache files of the path commands, by cache kind
    stale,          \* per map cache: the keys of entries that a load found expired
                    \* and that were not recomputed since (history)
    cmd,            \* the path command that is running
    app_id,         \* its argument app_id
    ppc,            \* where the path command stands
    pload,          \* what its load met: whether a snapshot was decoded, and
                    \* whether the result was returned from it
    presult,        \* its local result, and what it returned
    path_io,        \* the fs::read and fs::write calls it made on its cache file
    platform,       \* what the external platform holds under each id, when it
                    \* holds the same all along
    other,          \* a second invocation of workshop_items, by another process
                    \* on the same cache file: its position, argument and locals
    proc            \* the process run by main: the parsed command, the position
                    \* in execute_command, the results map, what was printed
                    \* and the exit status

cmdVars == <<pc, item_ids, load_env, cached_items, deleted_items, ids_to_fetch,
             items_result, result, written>>
obsVars == <<client_inits, spawned, queried>>
ioVars == <<cache_io, resolved>>
bridgeVars == <<wpc, handler, rx_inner, signals, rx_open, task, elapsed, pumping>>
itemVars == <<file, fetched_at, prev, cmdVars, obsVars, ioVars, bridgeVars>>
pathVars == <<path_files, stale, cmd, app_id, ppc, pload, presult, path_io>>
outerVars == <<platform, other, proc>>
vars == <<now, itemVars, pathVars, outerVars>>

NoPathLoad == [decoded |-> FALSE, hit |-> FALSE]
NoPrev == [set |-> FALSE, item_ids |-> <<>>, val |-> <<>>]
NoLoad == [t |-> 0, readable |-> FALSE, fetched_at |-> EmptyMap]
\* The second process before its call
NoOther ==
    [pc |-> "idle", item_ids |-> <<>>, cached_items |-> EmptyMap, deleted_items |-> {},
     ids_to_fetch |-> <<>>, items_result |-> <<>>, result |-> Ok(<<>>), written |-> FALSE,
     fetched_at |-> EmptyMap]

BridgeIdle ==
    /\ wpc = "idle"
    /\ handler = "none"
    /\ rx_inner = <<>>
    /\ signals = 0
    /\ rx_open = FALSE
    /\ task = <<>>
    /\ elapsed = 0
    /\ pumping = 0

\* A new process: no worker, no channels
BridgeReset ==
    /\ wpc' = "idle"
    /\ handler' = "none"
    /\ rx_inner' = <<>>
    /\ signals' = 0
    /\ rx_open' = FALSE
    /\ task' = <<>>
    /\ elapsed' = 0
    /\ pumping' = 0

\* The state before the first invocation, whatever the platform
Start ==
    /\ now = 0
    /\ platform \in {Changing} \cup {Unchanging(h) : h \in Holdings}
    /\ file \in {NoFile, CorruptFile}
    /\ fetched_at = EmptyMap
    /\ pc = "idle"
    /\ item_ids = <<>>
    /\ load_env = NoLoad
    /\ cached_items = EmptyMap
    /\ deleted_items = {}
    /\ ids_to_fetch = <<>>
    /\ items_result = <<>>
    /\ result = Ok(<<>>)
    /\ written = FALSE
    /\ client_inits = 0
    /\ spawned = 0
    /\ queried = <<>>
    /\ cache_io = {}
    /\ resolved = <<>>
    /\ prev = NoPrev
    /\ BridgeIdle
    /\ path_files = [k \in PathCacheKinds |-> NoPathFile]
    /\ stale = [k \in MapCacheKinds |-> {}]
    /\ cmd = "none"
    /\ app_id = 0
    /\ ppc = "idle"
    /\ pload = NoPathLoad
    /\ presult = <<>>
    /\ path_io = <<>>
    /\ other = NoOther
    /\ proc = NoProc

Init == Start /\ platform = Changing

\* The file holds a snapshot that a load meeting env can read and that is less
\* than 24 hours old by env's clock (the age counted as 0 when the timestamp
\* is ahead of the clock)
FileFresh(env) ==
    /\ file.st = "ok"
    /\ env.readable
    /\ (env.t < file.timestamp \/ env.t - file.timestamp < 24 * 60 * 60)

\* The command returns r: its locals are dropped
Return(r) ==
    /\ result' = r
    /\ pc' = "done"
    /\ load_env' = NoLoad
    /\ cached_items' = EmptyMap
    /\ deleted_items' = {}
    /\ ids_to_fetch' = <<>>
    /\ items_result' = <<>>

\* ------------------------------------------------------- the environment

\* The wall clock moves on. The command reads it at the load (line 61) and,
\* after the fetch, at the save (line 186): time is let pass before the load
\* and while the fetch runs.
ClockAdvance ==
    /\ pc \in {"load", "client"}
    /\ \E t \in Times : t > now /\ now' = t
    /\ UNCHANGED <<outerVars, pathVars, file, fetched_at, prev, cmdVars, obsVars, ioVars, bridgeVars>>

\* The wall clock is set back
ClockSetBack ==
    /\ pc \in {"load", "client"}
    /\ \E t \in Times : t < now /\ now' = t
    /\ UNCHANGED <<outerVars, pathVars, file, fetched_at, prev, cmdVars, obsVars, ioVars, bridgeVars>>

\* ------------------------------------------------------ workshop_items

\* EntryPoint without the test of line 43
EntryPointAlwaysLoad(ids) == "load"

\* lines 43-45: if item_ids.is_empty() { return Ok(Vec::new()); }
EntryPoint(ids) == IF ids = <<>> THEN "done" ELSE "load"

\* lines 39-45: the call; an empty id list returns at once
Invoke(reqs) ==
    /\ pc \in {"idle", "done"}
    /\ \E ids \in reqs :
        /\ item_ids' = ids
        /\ prev' = IF prev.set /\ prev.item_ids = ids THEN prev ELSE NoPrev
        /\ pc' = EntryPoint(ids)
    /\ result' = Ok(<<>>)
    /\ load_env' = NoLoad
    /\ cached_items' = EmptyMap
    /\ deleted_items' = {}
    /\ ids_to_fetch' = <<>>
    /\ items_result' = <<>>
    /\ written' = FALSE
    /\ client_inits' = 0
    /\ spawned' = 0
    /\ queried' = <<>>
    /\ cache_io' = {}
    /\ resolved' = <<>>
    /\ BridgeReset
    /\ UNCHANGED <<outerVars, pathVars, now, file, fetched_at>>

\* The fetch times of the entries that a load takes over from the file
LoadedFetchTimes(readable) ==
    [id \in DOMAIN LoadedItems(file, readable, now)
            \cup LoadedDeleted(file, readable, now) |-> fetched_at[id]]

\* lines 47-79: the cache directory, the load of the cache file and the plan
LoadCache ==
    /\ pc = "load"
    /\ \E dir \in {"ok", "no_cache_dir", "create_dir_failed"}, readable \in BOOLEAN :
        IF dir = "no_cache_dir"
        THEN /\ Return(Err("get_cache_dir failed"))
             /\ cache_io' = {"get_cache_dir"}
        ELSE IF dir = "create_dir_failed"
        THEN /\ Return(Err("Failed to create cache directory"))
             /\ cache_io' = {"get_cache_dir", "create_dir_all"}
        ELSE /\ load_env' = [t |-> now, readable |-> readable,
                               fetched_at |-> LoadedFetchTimes(readable)]
             /\ cache_io' = {"get_cache_dir", "create_dir_all", "exists"} \cup
                            (IF file.st = "absent" THEN {} ELSE {"read"})
             /\ cached_items' = LoadedItems(file, readable, now)
             /\ deleted_items' = LoadedDeleted(file, readable, now)
             /\ ids_to_fetch' = IdsToFetch(item_ids, LoadedItems(file, readable, now),
                                           LoadedDeleted(file, readable, now))
             /\ pc' = "planned"
             /\ UNCHANGED <<result, items_result>>
    /\ prev' = IF pc' = "planned" /\ FileFresh(load_env') THEN prev ELSE NoPrev
    /\ UNCHANGED <<outerVars, pathVars, now, file, fetched_at, item_ids, written, obsVars, resolved, bridgeVars>>

\* lines 81-104: every requested id is cached or known to be deleted
AllCached ==
    /\ pc = "planned"
    /\ ids_to_fetch = <<>>
    /\ \E names \in CreatorNameAnswers(CreatorIds(FinalItems(item_ids, cached_items))) :
        /\ resolved' = Append(resolved,
                [creator_ids |-> CreatorIds(FinalItems(item_ids, cached_items)),
                 answer |-> names])
        /\ IF names.ok
           THEN Return(Ok(Enhance(FinalItems(item_ids, cached_items), names.val)))
           ELSE Return(Err(names.err))
    /\ UNCHANGED <<outerVars, pathVars, now, file, fetched_at, prev, item_ids, written, obsVars, cache_io, bridgeVars>>

\* line 106: steam_manager::initialize_client(steam_game_id).await?
InitializeClient ==
    /\ pc = "planned"
    /\ ids_to_fetch # <<>>
    /\ client_inits' = client_inits + 1
    /\ \E ok \in BOOLEAN :
        IF ok
        THEN /\ pc' = "client"
             /\ UNCHANGED <<result, load_env, cached_items, deleted_items, ids_to_fetch,
                            items_result>>
        ELSE Return(Err("initialize_client failed"))
    /\ UNCHANGED <<outerVars, pathVars, now, file, fetched_at, prev, item_ids, written, spawned, queried, ioVars, bridgeVars>>

\* The failures the bridge can end with
QueryHandleError == "Failed to create query handle"
SteamApiError == "Steam API error"
\* TimeoutError given the message of the external-API failure
TimeoutErrorConflated == "Steam API error"

TimeoutError == "Operation timed out waiting for Steam response"
TaskError == "Task error"
RunCallbacksError == "run_callbacks failed"

\* Surface going on to the merge with nothing fetched when the worker failed
SurfaceLenient(r) ==
    /\ items_result' = r.val
    /\ pc' = "merge"
    /\ UNCHANGED <<result, load_env, cached_items, deleted_items, ids_to_fetch>>

\* lines 152-161: the worker's result is surfaced; Ok goes on to the merge
Surface(r) ==
    IF r.ok
    THEN /\ items_result' = r.val
         /\ pc' = "merge"
         /\ UNCHANGED <<result, load_env, cached_items, deleted_items, ids_to_fetch>>
    ELSE Return(Err(r.err))

\* What the completion handler is given for a query of ids when the query
\* succeeds (lines 119-122): one slot per queried id, with what the platform
\* holds under the id
PlatformResults(ids) ==
    IF platform.fixed
    THEN {[i \in 1..Len(ids) |-> platform.holds[ids[i]]]}
    ELSE QueryResults(ids)

\* What lines 108-161 can end with for a query of ids
BridgeOutcomes(ids) ==
    {Ok(r) : r \in PlatformResults(ids)} \cup
    {Err(e) : e \in {QueryHandleError, SteamApiError, TimeoutError, TaskError,
                     RunCallbacksError}}

\* lines 108-161 as one step: the worker is spawned, queries ids_to_fetch, and
\* the loop surfaces the outcome
RunBridge ==
    /\ pc = "client"
    /\ spawned' = spawned + 1
    /\ \E out \in BridgeOutcomes(ids_to_fetch) :
        /\ Surface(out)
        /\ \E asked \in BOOLEAN :
            /\ (out.ok \/ out.err \in {QueryHandleError, SteamApiError, TimeoutError}) => asked
            /\ queried' = IF asked THEN Append(queried, ids_to_fetch) ELSE queried
    /\ UNCHANGED <<outerVars, pathVars, now, file, fetched_at, prev, item_ids, written, client_inits, ioVars, bridgeVars>>

\* lines 163-197: the fetched records are filtered and merged, the snapshot
\* is encoded and written
MergeSave ==
    /\ pc = "merge"
    /\ LET fetched_items == FetchedItems(items_result)
           fetched_ids == FetchedIds(fetched_items)
           items == InsertItems(cached_items, fetched_items)
           deleted == MarkDeleted(deleted_items, ids_to_fetch, fetched_ids)
       IN \E io \in {"encode_failed", "written", "write_failed"} :
            /\ IF io = "encode_failed"
               THEN Return(Err("Failed to serialize cache"))
               ELSE /\ pc' = "output"
                    /\ cached_items' = items
                    /\ deleted_items' = deleted
                    /\ UNCHANGED <<result, load_env, ids_to_fetch, items_result>>
            /\ file' = IF io = "written" THEN WorkshopItemCache(items, deleted, now)
                       ELSE file
            /\ fetched_at' =
                IF io = "written"
                THEN [id \in DOMAIN items \cup deleted |->
                        IF id \in Range(ids_to_fetch) THEN now
                        ELSE load_env.fetched_at[id]]
                ELSE fetched_at
            /\ written' = (io = "written")
            /\ cache_io' = IF io = "encode_failed" THEN cache_io ELSE cache_io \cup {"write"}
            /\ prev' = IF io = "written" THEN NoPrev ELSE prev
    /\ UNCHANGED <<outerVars, pathVars, now, item_ids, obsVars, resolved, bridgeVars>>

\* lines 199-221: the output in request order, with the creator names
FinalOutput ==
    /\ pc = "output"
    /\ \E names \in CreatorNameAnswers(CreatorIds(FinalItems(item_ids, cached_items))) :
        /\ resolved' = Append(resolved,
                [creator_ids |-> CreatorIds(FinalItems(item_ids, cached_items)),
                 answer |-> names])
        /\ IF names.ok
           THEN /\ Return(Ok(Enhance(FinalItems(item_ids, cached_items), names.val)))
                /\ prev' = IF written
                           THEN [set |-> TRUE, item_ids |-> item_ids,
                                 val |-> Enhance(FinalItems(item_ids, cached_items), names.val)]
                           ELSE prev
           ELSE /\ Return(Err(names.err))
                /\ UNCHANGED prev
    /\ UNCHANGED <<outerVars, pathVars, now, file, fetched_at, item_ids, written, obsVars, cache_io, bridgeVars>>

\* ----------------------- workshop_items, invoked by a second process
\* The same code run by another process at the same time: its locals are the
\* fields of other, the cache file and the clock are the ones of the first.

\* The second process returns r
OtherReturn(r) ==
    [other EXCEPT !.pc = "done", !.result = r, !.cached_items = EmptyMap,
                  !.deleted_items = {}, !.ids_to_fetch = <<>>, !.items_result = <<>>,
                  !.fetched_at = EmptyMap]

\* lines 39-45
OtherInvoke(reqs) ==
    /\ other.pc \in {"idle", "done"}
    /\ pc \notin {"idle", "done"}
    /\ \E ids \in reqs :
        other' = [NoOther EXCEPT !.pc = EntryPoint(ids), !.item_ids = ids]
    /\ UNCHANGED <<now, itemVars, pathVars, platform, proc>>

\* lines 47-79
OtherLoadCache ==
    /\ other.pc = "load"
    /\ \E dir \in {"ok", "no_cache_dir", "create_dir_failed"}, readable \in BOOLEAN :
        other' =
            IF dir = "no_cache_dir" THEN OtherReturn(Err("get_cache_dir failed"))
            ELSE IF dir = "create_dir_failed"
            THEN OtherReturn(Err("Failed to create cache directory"))
            ELSE [other EXCEPT
                    !.pc = "planned",
                    !.cached_items = LoadedItems(file, readable, now),
                    !.deleted_items = LoadedDeleted(file, readable, now),
                    !.fetched_at = LoadedFetchTimes(readable),
                    !.ids_to_fetch = IdsToFetch(other.item_ids,
                                                LoadedItems(file, readable, now),
                                                LoadedDeleted(file, readable, now))]
    /\ UNCHANGED <<now, itemVars, pathVars, platform, proc>>

\* lines 199-221 (and 82-103): the list the second process returns
OtherOutput ==
    \E names \in CreatorNameAnswers(
                    CreatorIds(FinalItems(other.item_ids, other.cached_items))) :
        other' = IF names.ok
                 THEN OtherReturn(Ok(Enhance(FinalItems(other.item_ids, other.cached_items),
                                             names.val)))
                 ELSE OtherReturn(Err(names.err))

\* lines 81-104
OtherAllCached ==
    /\ other.pc = "planned"
    /\ other.ids_to_fetch = <<>>
    /\ OtherOutput
    /\ UNCHANGED <<now, itemVars, pathVars, platform, proc>>

\* lines 106-161: the client is initialized and the bridge run
OtherRunBridge ==
    /\ other.pc = "planned"
    /\ other.ids_to_fetch # <<>>
    /\ \E out \in BridgeOutcomes(other.ids_to_fetch) \cup {Err("initialize_client failed")} :
        other' = IF out.ok
                 THEN [other EXCEPT !.pc = "merge", !.items_result = out.val]
                 ELSE OtherReturn(Err(out.err))
    /\ UNCHANGED <<now, itemVars, pathVars, platform, proc>>

\* lines 163-197
OtherMergeSave ==
    /\ other.pc = "merge"
    /\ LET fetched_items == FetchedItems(other.items_result)
           fetched_ids == FetchedIds(fetched_items)
           items == InsertItems(other.cached_items, fetched_items)
           deleted == MarkDeleted(other.deleted_items, other.ids_to_fetch, fetched_ids)
       IN \E io \in {"encode_failed", "written", "write_failed"} :
            /\ other' = IF io = "encode_failed"
                        THEN OtherReturn(Err("Failed to serialize cache"))
                        ELSE [other EXCEPT !.pc = "output", !.cached_items = items,
                                           !.deleted_items = deleted,
                                           !.written = (io = "written")]
            /\ file' = IF io = "written" THEN WorkshopItemCache(items, deleted, now)
                       ELSE file
            /\ fetched_at' =
                IF io = "written"
                THEN [id \in DOMAIN items \cup deleted |->
                        IF id \in Range(other.ids_to_fetch) THEN now
                        ELSE other.fetched_at[id]]
                ELSE fetched_at
            /\ prev' = IF io = "written" THEN NoPrev ELSE prev
    /\ UNCHANGED <<now, cmdVars, obsVars, ioVars, bridgeVars, pathVars, platform, proc>>

\* lines 199-221
OtherFinalOutput ==
    /\ other.pc = "output"
    /\ OtherOutput
    /\ UNCHANGED <<now, itemVars, pathVars, platform, proc>>

\* ------------------------------------------------- the process (main.rs)

\* main.rs 11-18: the process starts and parses its arguments
Main ==
    /\ proc.phase \in {"none", "exited"}
    /\ \E c \in ParsedCommands :
        proc' = IF c.parsed
                THEN [NoProc EXCEPT !.phase = "await", !.command = c]
                ELSE [NoProc EXCEPT !.phase = "exited",
                                    !.stderr = <<[prefix |-> "Error: ", of |-> "parse_args"]>>,
                                    !.exit = 1]
    /\ UNCHANGED <<now, itemVars, pathVars, platform, other>>

\* The subcommand that execute_command is at
Current == proc.command.commands[proc.idx + 1]

Awaiting(kinds) == proc.phase = "await" /\ Current.kind \in kinds

\* execute_single_command has returned to execute_command: the locals of the
\* command it called are gone
DropLocals ==
    /\ pc' = "idle"
    /\ item_ids' = <<>>
    /\ load_env' = NoLoad
    /\ cached_items' = EmptyMap
    /\ deleted_items' = {}
    /\ ids_to_fetch' = <<>>
    /\ items_result' = <<>>
    /\ result' = Ok(<<>>)
    /\ written' = FALSE
    /\ client_inits' = 0
    /\ spawned' = 0
    /\ queried' = <<>>
    /\ cache_io' = {}
    /\ resolved' = <<>>
    /\ prev' = NoPrev
    /\ BridgeReset
    /\ ppc' = "idle"
    /\ pload' = NoPathLoad
    /\ presult' = <<>>
    /\ path_io' = <<>>
    /\ UNCHANGED <<now, file, fetched_at, path_files, stale, cmd, app_id, platform, other>>

\* The command called has returned
Returned ==
    IF Current.kind = "workshop-items" THEN pc = "done" ELSE ppc = "done"

\* main.rs 83-87 and 114-123: what execute_single_command returns
SingleResult ==
    CASE Current.kind = "workshop-items" ->
            IF result.ok THEN Ok(ToStringPretty(result.val)) ELSE Err(result.err)
      [] Current.kind = "workshop-path" ->
            IF presult # None THEN Ok(ToStringPretty(presult[1]))
            ELSE Err("Workshop path not found for app ID")
      [] OTHER ->
            IF presult.ok THEN Ok(ToStringPretty(presult.val)) ELSE Err(presult.err)

\* The record of the command that has returned: its key, the entry made for
\* its outcome, whether it succeeded and whether a path command answered from
\* its cache (history)
Executed ==
    [key |-> Key(Current, proc.idx), entry |-> Entry(SingleResult),
     ok |-> SingleResult.ok, hit |-> pload.hit]

\* main.rs 39-65: the subcommand called at line 51 has returned and its
\* outcome is inserted under its key;
\* after the last subcommand the map is returned
CombinedInsert ==
    /\ proc.phase = "await"
    /\ proc.command.combined
    /\ Returned
    /\ LET results == MapInsert(proc.results, Key(Current, proc.idx), Entry(SingleResult))
           last == proc.idx + 1 = Len(proc.command.commands)
       IN proc' = [proc EXCEPT
                    !.results = results,
                    !.executed = Append(proc.executed, Executed),
                    !.idx = proc.idx + 1,
                    !.phase = IF last THEN "return" ELSE "await",
                    !.returned = IF last THEN Ok(ToStringPretty(results)) ELSE proc.returned]
    /\ DropLocals

\* main.rs 67: a command that is not combined returns its own result
SingleReturn ==
    /\ proc.phase = "await"
    /\ ~proc.command.combined
    /\ Returned
    /\ proc' = [proc EXCEPT !.phase = "return", !.returned = SingleResult,
                            !.executed = Append(proc.executed, Executed)]
    /\ DropLocals

\* ExitStatus reporting success whatever the result
ExitStatusSuccess(res) == 0

\* main.rs 25 and 29: std::process::exit(0) for Ok, exit(1) for Err
ExitStatus(res) == IF res.ok THEN 0 ELSE 1

\* main.rs 22-31: the result is printed and the process exits
MainExit ==
    /\ proc.phase = "return"
    /\ proc' = IF proc.returned.ok
               THEN [proc EXCEPT !.phase = "exited", !.stdout = <<proc.returned.val>>,
                                 !.exit = ExitStatus(proc.returned)]
               ELSE [proc EXCEPT !.phase = "exited",
                                 !.stderr = <<[prefix |-> "Error: ", of |-> proc.returned.err]>>,
                                 !.exit = ExitStatus(proc.returned)]
    /\ UNCHANGED <<now, itemVars, pathVars, platform, other>>

\* The path command named by a subcommand kind
PathCommandOf(kind) ==
    CASE kind = "workshop-path" -> "workshop_path"
      [] kind = "app-installation-path" -> "app_installation_path"
      [] OTHER -> "steam_library_paths"

\* ------------------------------------- the bridge, step by step (106-161)

\* A finished worker closure: what the JoinHandle yields
Joined(r) == <<[join |-> "ok", res |-> r]>>
Panicked == <<[join |-> "panic", res |-> Err("JoinError")]>>

WorkerRunning == wpc \in {"query", "send", "recv", "check", "sleep"}
WorkerPolling == wpc \in {"send", "recv", "check", "sleep"}

\* lines 108-110, 144-145: the signal channel is created and the worker spawned
SpawnWorker ==
    /\ pc = "client"
    /\ pc' = "bridge"
    /\ spawned' = spawned + 1
    /\ rx_open' = TRUE
    /\ wpc' = "query"
    /\ UNCHANGED <<outerVars, pathVars, now, file, fetched_at, prev, pumping, ioVars, item_ids, load_env, cached_items, deleted_items,
                   ids_to_fetch, items_result, result, written, client_inits, queried,
                   handler, rx_inner, signals, task, elapsed>>

\* lines 111-128: the query is created and sent with its completion handler,
\* and the timer is started
WorkerQuery ==
    /\ wpc = "query"
    /\ queried' = Append(queried, ids_to_fetch)
    /\ \E created \in BOOLEAN :
        IF created
        THEN /\ handler' = "registered"
             /\ wpc' = "send"
             /\ UNCHANGED task
        ELSE /\ task' = Joined(Err(QueryHandleError))
             /\ wpc' = "done"
             /\ UNCHANGED handler
    /\ elapsed' = 0
    /\ UNCHANGED <<outerVars, pathVars, now, file, fetched_at, prev, pumping, ioVars, cmdVars, client_inits, spawned, rx_inner, signals,
                   rx_open>>

\* line 131: tx.blocking_send(()) waits for room in the channel; it returns an
\* error at once when the receiver is gone
BlockingSendReady == signals < QueueCap \/ ~rx_open

WorkerSend ==
    /\ wpc = "send"
    /\ BlockingSendReady
    /\ signals' = IF rx_open THEN signals + 1 ELSE signals
    /\ wpc' = "recv"
    /\ UNCHANGED <<outerVars, pathVars, now, file, fetched_at, prev, pumping, ioVars, cmdVars, obsVars, handler, rx_inner, rx_open, task,
                   elapsed>>

\* lines 132-134: rx_inner.try_recv()
WorkerRecv ==
    /\ wpc = "recv"
    /\ IF rx_inner # <<>>
       THEN /\ task' = Joined(rx_inner[1])
            /\ rx_inner' = <<>>
            /\ wpc' = "done"
       ELSE /\ wpc' = "check"
            /\ UNCHANGED <<task, rx_inner>>
    /\ UNCHANGED <<outerVars, pathVars, now, file, fetched_at, prev, pumping, ioVars, cmdVars, obsVars, handler, signals, rx_open, elapsed>>

\* TimedOut with the comparison made inclusive
TimedOutInclusive(e) == e >= TimeoutSecs

\* line 136: start_time.elapsed() > timeout_duration
TimedOut(e) == e > TimeoutSecs

\* lines 136-138
WorkerCheck ==
    /\ wpc = "check"
    /\ IF TimedOut(elapsed)
       THEN /\ task' = Joined(Err(TimeoutError))
            /\ wpc' = "done"
       ELSE /\ wpc' = "sleep"
            /\ UNCHANGED task
    /\ UNCHANGED <<outerVars, pathVars, now, file, fetched_at, prev, pumping, ioVars, cmdVars, obsVars, handler, rx_inner, signals, rx_open,
                   elapsed>>

\* line 140: std::thread::sleep
WorkerSleep ==
    /\ wpc = "sleep"
    /\ wpc' = "send"
    /\ UNCHANGED <<outerVars, pathVars, now, file, fetched_at, prev, pumping, ioVars, cmdVars, obsVars, handler, rx_inner, signals, rx_open,
                   task, elapsed>>

\* The worker closure panics: the JoinHandle yields a JoinError (line 154)
WorkerPanic ==
    /\ WorkerRunning
    /\ task' = Panicked
    /\ wpc' = "done"
    /\ UNCHANGED <<outerVars, pathVars, now, file, fetched_at, prev, pumping, ioVars, cmdVars, obsVars, handler, rx_inner, signals, rx_open,
                   elapsed>>

\* The steps of the timer the worker reads (seconds)
ElapseSteps == {TimeoutSecs \div 2, (TimeoutSecs \div 2) + 1}

\* Time passes while the worker polls
Elapse ==
    /\ WorkerPolling
    /\ elapsed <= TimeoutSecs
    /\ \E d \in ElapseSteps : elapsed' = elapsed + d
    /\ UNCHANGED <<outerVars, pathVars, now, file, fetched_at, prev, pumping, ioVars, cmdVars, obsVars, wpc, handler, rx_inner, signals,
                   rx_open, task>>

\* What the completion handler sends on tx_inner (lines 119-124)
HandlerResults(ids) ==
    {Ok(r) : r \in PlatformResults(ids)} \cup {Err(SteamApiError)}

\* LoopAtSelect holding also while a pump is in progress
LoopAtSelectAlways == TRUE

\* lines 147-148: the cooperative loop is at select!, not inside run_callbacks
LoopAtSelect == pumping = 0

\* SignalReceived holding also when the queue is empty
SignalReceivedAlways == TRUE

\* line 149: Some(_) = rx.recv() completes when the queue holds a signal
SignalReceived == signals > 0

\* lines 149-150: a signal is received and run_callbacks is called
LoopPump ==
    /\ pc = "bridge"
    /\ LoopAtSelect
    /\ SignalReceived
    /\ signals' = signals - 1
    /\ pumping' = pumping + 1
    /\ UNCHANGED <<outerVars, pathVars, now, file, fetched_at, prev, cmdVars, obsVars, ioVars, wpc, handler, rx_inner,
                   rx_open, task, elapsed>>

\* Delivered with the result channel kept open after the worker has ended
DeliveredAlways(r) == <<r>>

\* lines 112 and 120-124: tx_inner.send(..) puts the result on the channel; the
\* receiver rx_inner is a local of the worker closure, dropped when the closure
\* has returned: the send then fails and the failure is ignored (let _ =)
Delivered(r) == IF wpc = "done" THEN rx_inner ELSE <<r>>

\* line 150: run_callbacks returns; the pump can have run the completion
\* handler, and it can fail
PumpReturn ==
    /\ pc = "bridge"
    /\ pumping > 0
    /\ pumping' = pumping - 1
    /\ \E out \in {"failed", "idle", "completed"} :
        CASE out = "failed" ->
                /\ Return(Err(RunCallbacksError))
                /\ signals' = 0
                /\ rx_open' = FALSE
                /\ UNCHANGED <<handler, rx_inner>>
          [] out = "idle" ->
                /\ UNCHANGED <<cmdVars, handler, rx_inner, signals, rx_open>>
          [] out = "completed" ->
                /\ handler = "registered"
                /\ handler' = "called"
                /\ \E r \in HandlerResults(ids_to_fetch) :
                    rx_inner' = Delivered(r)
                /\ UNCHANGED <<cmdVars, signals, rx_open>>
    /\ UNCHANGED <<outerVars, pathVars, now, file, fetched_at, prev, item_ids, written, obsVars, ioVars, wpc, task, elapsed>>

\* lines 152-161: the worker has ended; its result leaves the loop
LoopJoin ==
    /\ pc = "bridge"
    /\ LoopAtSelect
    /\ task # <<>>
    /\ IF task[1].join = "panic"
       THEN Return(Err(TaskError))
       ELSE Surface(task[1].res)
    /\ signals' = 0
    /\ rx_open' = FALSE
    /\ UNCHANGED <<outerVars, pathVars, now, file, fetched_at, prev, pumping, ioVars, item_ids, written, obsVars, wpc, handler, rx_inner,
                   task, elapsed>>

\* ------------------------------------------------------ the path commands

\* The wall clock moves on between two invocations and while a command scans
PathClockAdvance ==
    /\ ppc \in {"done", "compute"}
    /\ \E t \in PathTimes : t > now /\ now' = t
    /\ UNCHANGED <<itemVars, pathVars, outerVars>>

\* The wall clock is set back between two invocations or while a command scans
PathClockSetBack ==
    /\ ppc \in {"done", "compute"}
    /\ \E t \in PathTimes : t < now /\ now' = t
    /\ UNCHANGED <<itemVars, pathVars, outerVars>>

\* The commands that use a cache file in common: app_installation_path calls
\* steam_library_paths; workshop_path uses workshop_path_cache.bin alone
SharesCache(c, d) == (c = "workshop_path") = (d = "workshop_path")

\* A path command is called. workshop_path and the other two commands have no
\* file in common: a behaviour runs the invocations of one of the two families.
PathInvoke ==
    /\ ppc \in {"idle", "done"}
    /\ \E c \in {"app_installation_path", "workshop_path", "steam_library_paths"} :
        /\ cmd # "none" => SharesCache(cmd, c)
        /\ cmd' = c
        /\ \E a \in AppIds :
            app_id' = IF c = "steam_library_paths" THEN 0 ELSE a
    /\ ppc' = "load"
    /\ pload' = NoPathLoad
    /\ presult' = <<>>
    /\ path_io' = <<>>
    /\ UNCHANGED <<now, itemVars, outerVars, path_files, stale>>

\* The load of a map cache (app_installation_path.rs 19-41, workshop_path.rs
\* 19-41): the cached result of app_id is returned if the snapshot is used
MapLoad(k) ==
    /\ ppc = "load"
    /\ \E dir_ok \in BOOLEAN, readable \in BOOLEAN :
        /\ IF CachedResult(path_files[k], dir_ok, readable, now, app_id) # None
           THEN /\ presult' = CachedResult(path_files[k], dir_ok, readable, now, app_id)[1]
                /\ ppc' = "done"
           ELSE /\ ppc' = "compute"
                /\ UNCHANGED presult
        /\ pload' = [decoded |-> dir_ok /\ readable /\ path_files[k].st = "ok",
                      hit |-> CachedResult(path_files[k], dir_ok, readable, now, app_id) # None]
        /\ stale' = IF dir_ok /\ readable /\ path_files[k].st = "ok"
                        /\ ~PathSnapshotValid(path_files[k], now)
                     THEN [stale EXCEPT ![k] = DOMAIN path_files[k].paths]
                     ELSE stale
        /\ path_io' = path_io \o ReadOps(path_files[k], dir_ok)
    /\ UNCHANGED <<now, itemVars, outerVars, path_files, cmd, app_id>>

\* The save of a map cache (app_installation_path.rs 86-134, workshop_path.rs
\* 93-141): the file is read again, the result inserted, the timestamp set and
\* the file written; the result is returned
MapSave(k) ==
    /\ ppc = "save"
    /\ \E dir_ok \in BOOLEAN, readable \in BOOLEAN, io \in WriteOutcomes :
        LET after == IF dir_ok
                     THEN WriteFile(path_files[k],
                                    SavedSnapshot(path_files[k], readable, app_id, presult, now),
                                    io)
                     ELSE path_files[k]
        IN /\ path_files' = [path_files EXCEPT ![k] = after]
           /\ stale' = IF after = path_files[k] THEN stale
                        ELSE [stale EXCEPT ![k] = (stale[k] \cap DOMAIN after.paths) \ {app_id}]
           /\ path_io' = path_io \o ReadOps(path_files[k], dir_ok)
                                  \o (IF dir_ok THEN WriteOps(io) ELSE <<>>)
    /\ ppc' = "done"
    /\ UNCHANGED <<now, itemVars, outerVars, cmd, app_id, pload, presult>>

\* app_installation_path.rs 19-41
AppInstallationPathLoad ==
    /\ cmd = "app_installation_path"
    /\ MapLoad("app_install_path")

\* Cached holding for the failure of reading a manifest too
CachedAlways(scan) == TRUE

\* app_installation_path.rs 54-55: the failure of reading a manifest leaves the
\* function with `?`, before the save; every other outcome of the scan (lines
\* 46-84) is the value of `result` and reaches the save
Cached(scan) == scan # Err("Failed to read manifest file")

\* app_installation_path.rs 43-84: the library paths are looked up (a call of
\* steam_library_paths, which uses and writes its own cache) and scanned
AppInstallationPathScan ==
    /\ cmd = "app_installation_path"
    /\ ppc = "compute"
    /\ \E e \in LibraryEnvs :
        LET lib == SteamLibraryPathsRun(path_files["library_paths"], now, e)
        IN /\ path_files' = [path_files EXCEPT !["library_paths"] = lib.file]
           /\ IF ~lib.res.ok
              THEN /\ presult' = Err("Failed to get Steam library paths")
                   /\ ppc' = "done"
              ELSE \E scan \in InstallResults \cup {Err("Failed to read manifest file")} :
                    /\ presult' = scan
                    /\ ppc' = IF Cached(scan) THEN "save" ELSE "done"
    /\ UNCHANGED <<now, itemVars, outerVars, stale, cmd, app_id, pload, path_io>>

\* app_installation_path.rs 86-134
AppInstallationPathSave ==
    /\ cmd = "app_installation_path"
    /\ MapSave("app_install_path")

\* workshop_path.rs 19-41
WorkshopPathLoad ==
    /\ cmd = "workshop_path"
    /\ MapLoad("workshop_path")

\* workshop_path.rs 43-91: the scan; every failure in it gives None
WorkshopPathScan ==
    /\ cmd = "workshop_path"
    /\ ppc = "compute"
    /\ \E scan \in WorkshopPathResults : presult' = scan
    /\ ppc' = "save"
    /\ UNCHANGED <<now, itemVars, outerVars, path_files, stale, cmd, app_id, pload, path_io>>

\* workshop_path.rs 93-141
WorkshopPathSave ==
    /\ cmd = "workshop_path"
    /\ MapSave("workshop_path")

\* steam_library_paths.rs 15-88, called as a command
SteamLibraryPaths ==
    /\ cmd = "steam_library_paths"
    /\ ppc = "load"
    /\ \E e \in LibraryEnvs :
        LET lib == SteamLibraryPathsRun(path_files["library_paths"], now, e)
        IN /\ path_files' = [path_files EXCEPT !["library_paths"] = lib.file]
           /\ presult' = lib.res
           /\ pload' = [decoded |-> e.dir_ok /\ e.readable
                                    /\ path_files["library_paths"].st = "ok",
                         hit |-> lib.hit]
           /\ path_io' = path_io \o ReadOps(path_files["library_paths"], e.dir_ok)
                                  \o (IF ~lib.hit /\ lib.res.ok /\ e.save_dir_ok
                                      THEN WriteOps(e.io) ELSE <<>>)
    /\ ppc' = "done"
    /\ UNCHANGED <<now, itemVars, outerVars, stale, cmd, app_id>>

\* -------------------------------------------------------- specification
Next ==
    \/ Invoke(Requests)
    \/ LoadCache
    \/ AllCached
    \/ InitializeClient
    \/ RunBridge
    \/ MergeSave
    \/ FinalOutput
    \/ ClockAdvance
    \/ ClockSetBack

Spec == Init /\ [][Next]_vars

\* The command against a platform that holds the same records all along
InitUnchanging == Start /\ platform.fixed

SpecUnchanging == InitUnchanging /\ [][Next]_vars


\* The command with the bridge step by step, for requests of one id
BridgeRequests == {ids \in Requests : Len(ids) = 1}

Worker ==
    \/ WorkerQuery
    \/ WorkerSend
    \/ WorkerRecv
    \/ WorkerCheck
    \/ WorkerSleep

Loop ==
    \/ LoopPump
    \/ PumpReturn
    \/ LoopJoin

NextBridge ==
    \/ Invoke(BridgeRequests)
    \/ LoadCache
    \/ AllCached
    \/ InitializeClient
    \/ SpawnWorker
    \/ WorkerQuery
    \/ WorkerSend
    \/ WorkerRecv
    \/ WorkerCheck
    \/ WorkerSleep
    \/ WorkerPanic
    \/ Elapse
    \/ LoopPump
    \/ PumpReturn
    \/ LoopJoin
    \/ MergeSave
    \/ FinalOutput

SpecBridge == Init /\ [][NextBridge]_vars

\* The scheduling: the worker thread runs, time passes, the runtime polls the
\* cooperative loop
FairSpecBridge ==
    /\ SpecBridge
    /\ WF_vars(Worker)
    /\ WF_vars(Elapse)
    /\ WF_vars(Loop)

\* The path commands, one invocation after the other
NextPaths ==
    \/ PathInvoke
    \/ AppInstallationPathLoad
    \/ AppInstallationPathScan
    \/ AppInstallationPathSave
    \/ WorkshopPathLoad
    \/ WorkshopPathScan
    \/ WorkshopPathSave
    \/ SteamLibraryPaths
    \/ PathClockAdvance

\* The path commands do not use workshop_items_cache.bin
InitPaths == Init /\ file = NoFile

SpecPaths == InitPaths /\ [][NextPaths]_vars

\* Every command with a cache file. workshop_items and the path commands have
\* no file in common: a behaviour runs the invocations of the one or of the
\* others.
NextCaches ==
    \/ ppc = "idle" /\ Next
    \/ pc = "idle" /\ NextPaths

SpecCaches == Init /\ [][NextCaches]_vars

\* Every command with a cache file, under a wall clock that can be set back
NextSkew ==
    \/ NextCaches
    \/ pc = "idle" /\ PathClockSetBack

SpecSkew == Init /\ [][NextSkew]_vars

\* Two processes run the command at the same time on one cache file, against a
\* platform that holds the same all along; the second process asks for one id
NextOverlap ==
    \/ Invoke(Requests)
    \/ LoadCache
    \/ AllCached
    \/ InitializeClient
    \/ RunBridge
    \/ MergeSave
    \/ FinalOutput
    \/ OtherInvoke(BridgeRequests)
    \/ OtherLoadCache
    \/ OtherAllCached
    \/ OtherRunBridge
    \/ OtherMergeSave
    \/ OtherFinalOutput

SpecOverlap == InitUnchanging /\ [][NextOverlap]_vars

\* The process: main, execute_command and the commands it calls
NextMain ==
    \/ Main
    \/ CombinedInsert
    \/ SingleReturn
    \/ MainExit
    \/ /\ Awaiting({"workshop-items"})
       /\ \/ pc = "idle" /\ Invoke({Current.item_ids})
          \/ LoadCache
          \/ AllCached
          \/ InitializeClient
          \/ RunBridge
          \/ MergeSave
          \/ FinalOutput
    \/ /\ Awaiting({"workshop-path", "app-installation-path", "steam-library-paths"})
       /\ \/ ppc = "idle" /\ PathInvoke /\ cmd' = PathCommandOf(Current.kind)
                           /\ app_id' \in {0, Current.app_id}
          \/ AppInstallationPathLoad
          \/ AppInstallationPathScan
          \/ AppInstallationPathSave
          \/ WorkshopPathLoad
          \/ WorkshopPathScan
          \/ WorkshopPathSave
          \/ SteamLibraryPaths

SpecMain == Init /\ [][NextMain]_vars

\* ================================================================ claims

BeforeMerge == pc \in {"planned", "client", "bridge", "merge"}

\* The item records and the creator ids of an output list
ItemsOf(val) == [i \in DOMAIN val |-> val[i].workshop_item]
CreatorIdsOf(val) == [i \in DOMAIN val |-> val[i].creator_id]
OutputIds(val) == [i \in DOMAIN val |-> val[i].workshop_item.published_file_id]

\* The invocation under way follows, with the same id list, one that fetched,
\* wrote the cache file and returned a list, and it loaded that file while the
\* snapshot was less than 24 hours old
SecondCall == prev.set /\ ~written /\ pc \in {"planned", "client", "bridge", "merge", "output", "done"}

NoBridge == client_inits = 0 /\ spawned = 0 /\ queried = <<>>

\* C1 as stated: the second call returns the same enriched records as the
\* first (creator names included) and the bridge is not used.
C1_SameEnrichedRecords ==
    SecondCall =>
        /\ NoBridge
        /\ pc = "done" => result = Ok(prev.val)

\* C1, amended: the second call never initializes the client, spawns the
\* worker or issues the query, and when it returns a list, the list has the
\* same item records with the same creator ids, in the same order, as the
\* first; the creator names are resolved anew by each call.
C1_CacheHit ==
    SecondCall =>
        /\ NoBridge
        /\ pc \in {"planned", "done"}
        /\ (pc = "done" /\ result.ok) =>
            /\ ItemsOf(result.val) = ItemsOf(prev.val)
            /\ CreatorIdsOf(result.val) = CreatorIdsOf(prev.val)

C1_Witness ==
    /\ SecondCall
    /\ pc = "done"
    /\ result.ok
    /\ result.val # <<>>
    /\ Len(result.val) < Len(item_ids)

\* The load met a decodable, readable snapshot that was 24 hours old or older
ExpiredAtLoad ==
    /\ file.st = "ok"
    /\ load_env.readable
    /\ load_env.t - file.timestamp >= 24 * 60 * 60

\* C2: an invocation that loads a snapshot of age >= 24 h (exactly 24 h
\* included) keeps none of its records and negative markers and hands every
\* requested id to the external query.
C2_ExpiredSnapshotDiscarded ==
    (BeforeMerge /\ ExpiredAtLoad) =>
        /\ cached_items = EmptyMap
        /\ deleted_items = {}
        /\ ids_to_fetch = item_ids
        /\ \A q \in DOMAIN queried : queried[q] = item_ids

C2_Witness ==
    /\ pc = "merge"
    /\ ExpiredAtLoad
    /\ load_env.t - file.timestamp = 24 * 60 * 60
    /\ Range(item_ids) \cap DOMAIN file.items # {}
    /\ Range(item_ids) \cap file.deleted_items # {}
    /\ queried = <<item_ids>>

\* The retained records the external result holds for id: the slots that are
\* filled with a record of that id whose file_type is "Community"
Retained(slots, id) ==
    {slots[i][1] : i \in {j \in DOMAIN slots :
        /\ slots[j] # <<>>
        /\ slots[j][1].published_file_id = id
        /\ slots[j][1].file_type = "Community"}}

\* C3: an id of the fetch delta for which a successful fetch returned no
\* retained record is in the negative set of the file that is written; and an
\* invocation that loads a snapshot less than 24 hours old never hands an id
\* of its negative set to the external query, nor returns a record for an id
\* of the negative set.
C3_NegativeCaching ==
    /\ [][(pc = "merge" /\ written') =>
            \A x \in Range(ids_to_fetch) :
                Retained(items_result, x) = {} => x \in file'.deleted_items]_vars
    /\ []((BeforeMerge /\ FileFresh(load_env)) =>
            \A x \in file.deleted_items :
                /\ x \notin Range(ids_to_fetch)
                /\ \A q \in DOMAIN queried : x \notin Range(queried[q]))
    /\ [][(pc \in {"planned", "output"} /\ pc' = "done" /\ result'.ok) =>
            \A x \in deleted_items : x \notin Range(OutputIds(result'.val))]_vars

C3_Witness ==
    /\ SecondCall
    /\ pc = "done"
    /\ result.ok
    /\ file.st = "ok"
    /\ \E x \in file.deleted_items :
        /\ x \in Range(item_ids)
        /\ x \notin Range(OutputIds(result.val))

\* C4: the ids handed to the external query are the fetch delta: requested
\* minus (records and negative) when the load met a snapshot less than 24 hours
\* old, all requested ids otherwise; the command goes on to the fetch (line
\* 106 onwards) exactly when the delta is not empty.
C4_FetchDelta ==
    /\ [](BeforeMerge =>
            /\ FileFresh(load_env) =>
                Range(ids_to_fetch) =
                    Range(item_ids) \ (DOMAIN file.items \cup file.deleted_items)
            /\ ~FileFresh(load_env) => Range(ids_to_fetch) = Range(item_ids)
            /\ \A q \in DOMAIN queried : Range(queried[q]) = Range(ids_to_fetch)
            /\ pc # "planned" => ids_to_fetch # <<>>)
    /\ [][(pc = "planned" /\ pc' # "planned") =>
            /\ ids_to_fetch # <<>> <=> client_inits' = client_inits + 1
            /\ ids_to_fetch = <<>> <=> (client_inits' = 0 /\ pc' = "done")]_vars
    /\ [](pc = "done" => (queried # <<>> => client_inits > 0))

C4_Witness ==
    /\ pc = "merge"
    /\ FileFresh(load_env)
    /\ Range(item_ids) \cap (DOMAIN file.items \cup file.deleted_items) # {}
    /\ Len(ids_to_fetch) < Len(item_ids)
    /\ queried = <<ids_to_fetch>>

\* C5: no id appears twice in a list handed to the external query.
C5_DeltaDeduplicated ==
    \A q \in DOMAIN queried :
        \A i, j \in DOMAIN queried[q] : i # j => queried[q][i] # queried[q][j]

\* C6: the merge after a successful fetch. Every id of the delta gets the
\* fetched record if the result holds a retained record for it and is marked
\* negative otherwise; what the loaded snapshot held is carried over unchanged
\* and nothing else is added; the snapshot written carries the current time.
C6_MergeCorrect ==
    [][(pc = "merge" /\ pc' = "output") =>
        /\ \A id \in Range(ids_to_fetch) :
            IF Retained(items_result, id) # {}
            THEN /\ id \in DOMAIN cached_items'
                 /\ cached_items'[id] \in Retained(items_result, id)
            ELSE id \in deleted_items'
        /\ \A id \in DOMAIN cached_items :
            id \in DOMAIN cached_items' /\ (id \notin Range(ids_to_fetch) =>
                                            cached_items'[id] = cached_items[id])
        /\ DOMAIN cached_items' \subseteq DOMAIN cached_items \cup Range(ids_to_fetch)
        /\ deleted_items \subseteq deleted_items'
        /\ deleted_items' \subseteq deleted_items \cup Range(ids_to_fetch)
        /\ written' =>
            /\ file'.st = "ok"
            /\ file'.items = cached_items'
            /\ file'.deleted_items = deleted_items'
            /\ file'.timestamp = now]_vars

C6_Witness ==
    /\ pc = "output"
    /\ written
    /\ item_ids = <<1, 2>>
    /\ ids_to_fetch = <<1, 2>>
    /\ DOMAIN cached_items = {1}
    /\ deleted_items = {2}
    /\ file = WorkshopItemCache(cached_items, deleted_items, now)
    /\ now > 0

\* C7: on both paths the list returned is the request list without the ids
\* that have no record (after the merge): same order, an id requested k times
\* kept k times, each with its record; an id without a record is left out and
\* raises no error.
C7_OutputOrder ==
    [][(((pc = "planned" /\ ids_to_fetch = <<>>) \/ pc = "output") /\ pc' = "done") =>
        /\ result'.ok =>
            LET kept == SelectSeq(item_ids, LAMBDA id : id \in DOMAIN cached_items)
            IN /\ OutputIds(result'.val) = kept
               /\ \A i \in DOMAIN kept :
                    result'.val[i].workshop_item = cached_items[kept[i]]
        /\ ~result'.ok => result'.err = "fetch_creator_names failed"]_vars

C7_Witness ==
    /\ pc = "done"
    /\ result.ok
    /\ item_ids = <<2, 1>>
    /\ OutputIds(result.val) = <<2, 1>>

\* The worker closure returned from its poll loop without the completion
\* handler having been called
EndedUnanswered ==
    /\ task # <<>>
    /\ task # Panicked
    /\ task # Joined(Err(QueryHandleError))
    /\ handler = "registered"

WorkerBlocked == wpc = "send" /\ ~BlockingSendReady

\* C9: once more than 30 s have elapsed without a result, the worker goes on
\* to return the timeout failure whatever the cooperative loop does: it is
\* never held up by the signal channel, full or not.
C9_TimeoutIndependentOfLoop ==
    (WorkerPolling /\ elapsed > 30 /\ rx_inner = <<>>) => ~WorkerBlocked

\* What the command can return after a bridge run that ended in one of the
\* four terminal states: the failure of the bridge, or a failure of a later
\* stage
TerminalFailures == {SteamApiError, QueryHandleError, TimeoutError, TaskError}
LaterFailures == {"Failed to serialize cache", "fetch_creator_names failed"}

\* C10: once the bridge has surfaced its outcome, the worker is no longer
\* running, the outcome is Completed or one of the failures ExternalAPIError,
\* TimedOut, InternalTaskError, and the query was issued at most once.
C10_BridgeStateMachine ==
    (spawned > 0 /\ pc # "bridge") =>
        /\ spawned = 1
        /\ ~WorkerRunning
        /\ Len(queried) <= 1
        /\ (pc = "done" /\ ~result.ok) => result.err \in TerminalFailures \cup LaterFailures

\* C11: at most one call of run_callbacks is in progress at any time; a call
\* begins only by a step of the cooperative loop, which takes one signal from
\* the channel for it, and it ends only by a step of the loop; no step of the
\* worker begins or ends a call.
C11_PumpSerialization ==
    /\ [](pumping <= 1)
    /\ [][pumping' > pumping =>
            /\ pc = "bridge"
            /\ pumping = 0
            /\ pumping' = 1
            /\ signals > 0
            /\ signals' = signals - 1
            /\ UNCHANGED <<wpc, task, elapsed>>]_vars
    /\ [][(Worker \/ WorkerPanic \/ SpawnWorker) => UNCHANGED pumping]_vars

\* A pump is in progress while the worker is in its poll loop
C11_Witness ==
    /\ pumping = 1
    /\ wpc = "recv"
    /\ signals > 0

\* C12: an invocation with an empty id list has returned the empty list and
\* has performed no operation on the cache directory or the cache file, no
\* client initialization, no spawn, no query and no call of the name
\* resolver; the cache file is as it was.
C12_EmptyInput ==
    /\ []((item_ids = <<>> /\ pc # "idle") =>
            /\ pc = "done"
            /\ result = Ok(<<>>)
            /\ cache_io = {}
            /\ client_inits = 0
            /\ spawned = 0
            /\ queried = <<>>
            /\ resolved = <<>>)
    /\ [][item_ids' = <<>> => UNCHANGED file]_vars

\* An empty request made when a cache file with records exists
C12_Witness ==
    /\ item_ids = <<>>
    /\ pc = "done"
    /\ file.st = "ok"
    /\ DOMAIN file.items # {}

\* The failures of the cache layer that the command can return
CacheFailures ==
    {"get_cache_dir failed", "Failed to create cache directory", "Failed to serialize cache"}

\* C13: no failure of a cache operation (cache directory not located or not
\* created, file not read or not decoded, snapshot not serialized or not
\* written) is what the command returns: the command never returns one of
\* the cache layer's errors.
C13_CacheFailuresNeverFatal ==
    (pc = "done" /\ ~result.ok) => result.err \notin CacheFailures

\* C14 (the installation-path and workshop-path caches): an entry of a
\* snapshot that a load found expired is not returned from the cache and is
\* not in a file written afterwards, unless it was recomputed in between.
C14_WholeSnapshotInvalidation ==
    /\ [][(ppc = "load" /\ ppc' = "done" /\ cmd # "steam_library_paths") =>
            app_id \notin stale[PathCacheOf(cmd)]]_vars
    /\ [](\A k \in MapCacheKinds : stale[k] \cap DOMAIN path_files[k].paths = {}
                                     \/ ~PathSnapshotValid(path_files[k], now))

\* The ids of the request that the invocation answers from the loaded
\* snapshot, as a record or as confirmed absent
AnsweredFromCache == Range(item_ids) \ Range(ids_to_fetch)

\* C15: every record and every negative marker of the item cache file was
\* confirmed by a fetch made at the file's timestamp, and an id is answered
\* from the cache no more than 24 hours after the fetch that produced its
\* entry.
C15_EntryFreshness ==
    /\ file.st = "ok" =>
            \A id \in DOMAIN file.items \cup file.deleted_items :
                fetched_at[id] = file.timestamp
    /\ pc = "planned" =>
            \A id \in AnsweredFromCache : now - fetched_at[id] <= 24 * 60 * 60

\* C16: a snapshot that the load decoded is used if and only if
\* now - timestamp < TTL, the TTL being 86400 s for the item cache and 3600 s
\* for the installation-path, workshop-path and library-path caches. Used
\* means: the item command takes its records and negative markers over (and
\* otherwise starts from none); a path command returns the cached value of
\* its key (the library paths: the cached list) instead of computing it.
C16_TTLContract ==
    /\ []((pc = "planned" /\ file.st = "ok" /\ load_env.readable) =>
            IF load_env.t - file.timestamp < 86400
            THEN cached_items = file.items /\ deleted_items = file.deleted_items
            ELSE cached_items = EmptyMap /\ deleted_items = {})
    /\ [][(ppc = "load" /\ ppc' # "load" /\ pload'.decoded) =>
            LET f == path_files[PathCacheOf(cmd)]
                held == cmd = "steam_library_paths" \/ app_id \in DOMAIN f.paths
            IN /\ pload'.hit <=> (held /\ now - f.timestamp < 3600)
               /\ pload'.hit =>
                    /\ ppc' = "done"
                    /\ presult' = IF cmd = "steam_library_paths"
                                   THEN Ok(f.paths) ELSE f.paths[app_id]
                    /\ path_files' = path_files
               /\ (~pload'.hit /\ cmd # "steam_library_paths") => ppc' = "compute"]_vars

\* A path command has found a snapshot that holds its key exactly one hour old
\* and computes the result anew
C16_Witness ==
    /\ ppc = "compute"
    /\ pload.decoded
    /\ app_id \in DOMAIN path_files[PathCacheOf(cmd)].paths
    /\ now - path_files[PathCacheOf(cmd)].timestamp = 3600

\* C17: the timeout, the failure reported by the completion handler and the
\* panic of the worker have three different messages, and each message tells
\* its cause: the timeout message is returned only when the worker's timeout
\* check fired after more than 30 s, the external-API message only when the
\* completion handler was called and reported it, the task message only when
\* the worker panicked; and the loop surfaces the worker's outcome under its
\* own message.
C17_ErrorTaxonomy ==
    /\ [](/\ TimeoutError # SteamApiError
          /\ TimeoutError # TaskError
          /\ SteamApiError # TaskError)
    /\ []((pc = "done" /\ spawned > 0 /\ ~result.ok) =>
            /\ result.err = TimeoutError =>
                    (task = Joined(Err(TimeoutError)) /\ elapsed > 30)
            /\ result.err = SteamApiError =>
                    (task = Joined(Err(SteamApiError)) /\ handler = "called")
            /\ result.err = TaskError => task = Panicked)
    /\ [][(pc = "bridge" /\ pc' = "done" /\ pumping = 0) =>
            /\ task = Panicked => result' = Err(TaskError)
            /\ task = Joined(Err(TimeoutError)) => result' = Err(TimeoutError)
            /\ task = Joined(Err(SteamApiError)) => result' = Err(SteamApiError)]_vars

\* The completion handler reported a failure after more than 30 s, the worker
\* found it at its next poll, and the command returned it
C17_Witness ==
    /\ pc = "done"
    /\ result = Err(SteamApiError)
    /\ handler = "called"
    /\ elapsed > 30

\* The slots of the external result that are filtered out: empty, or filled
\* with a record whose file_type is not "Community"
Discarded(slots) ==
    {i \in DOMAIN slots : slots[i] = <<>> \/ slots[i][1].file_type # "Community"}

\* C18: a record whose file_type is not "Community" is never inserted into
\* the records, written to the file or returned; and a queried id whose slots
\* are all discarded (empty or not "Community") gets no record, is inserted
\* into negative, in memory and in the file written, and is not in the output.
C18_ResultFiltering ==
    /\ [](/\ \A id \in DOMAIN cached_items : cached_items[id].file_type = "Community"
          /\ \A id \in DOMAIN file.items : file.items[id].file_type = "Community"
          /\ (pc = "done" /\ result.ok) =>
                \A i \in DOMAIN result.val :
                    result.val[i].workshop_item.file_type = "Community")
    /\ [][(pc = "merge" /\ pc' = "output") =>
            \A i \in Discarded(items_result) :
                Retained(items_result, ids_to_fetch[i]) = {} =>
                    /\ ids_to_fetch[i] \notin DOMAIN cached_items'
                    /\ ids_to_fetch[i] \in deleted_items'
                    /\ written' => /\ ids_to_fetch[i] \in file'.deleted_items
                                   /\ ids_to_fetch[i] \notin DOMAIN file'.items]_vars
    /\ [][(pc = "output" /\ pc' = "done" /\ result'.ok) =>
            \A i \in Discarded(items_result) :
                Retained(items_result, ids_to_fetch[i]) = {} =>
                    ids_to_fetch[i] \notin Range(OutputIds(result'.val))]_vars

\* The fetch of two ids returned a record that is not "Community" and an empty
\* slot; both ids were marked and the snapshot was written
C18_Witness ==
    /\ pc = "output"
    /\ written
    /\ Len(items_result) = 2
    /\ items_result[1] # <<>>
    /\ items_result[1][1].file_type = "Collection"
    /\ items_result[2] = <<>>
    /\ file.deleted_items = {1, 2}

\* The invocation got to the output stage (lines 82-103 or 199-221)
ReachedOutput == pc = "done" /\ resolved # <<>>

\* C19: an invocation calls the name resolver at most once, exactly once when
\* it gets to the output stage, and the list of owner ids it passes holds no
\* owner twice.
C19_OneDistinctBatchedCall ==
    /\ Len(resolved) <= 1
    /\ (pc = "done" /\ item_ids # <<>> /\ result.ok) => Len(resolved) = 1
    /\ \A c \in DOMAIN resolved :
        \A i, j \in DOMAIN resolved[c].creator_ids :
            i # j => resolved[c].creator_ids[i] # resolved[c].creator_ids[j]

PlatformItems ==
    [id \in {x \in Ids : /\ platform.holds[x] # <<>>
                         /\ platform.holds[x][1].file_type = "Community"} |->
        platform.holds[id][1]]

\* C21: against a platform that holds the same records all along, a list
\* that workshop_items returns is a function of the request, of the platform
\* and of the name resolver's answer alone: the retained records the platform
\* holds for the requested ids, in request order, with the names answered -
\* whatever the cache file held (absent, undecodable, expired or in use) and
\* whether or not the bridge ran. The cache file never holds anything but
\* what the platform holds.
C21_CacheIndependence ==
    /\ (pc = "done" /\ result.ok) =>
            /\ ItemsOf(result.val) = FinalItems(item_ids, PlatformItems)
            /\ item_ids # <<>> =>
                    /\ resolved[1].creator_ids = CreatorIds(FinalItems(item_ids, PlatformItems))
                    /\ result.val = Enhance(FinalItems(item_ids, PlatformItems),
                                            resolved[1].answer.val)
    /\ file.st = "ok" =>
            /\ \A id \in DOMAIN file.items : file.items[id] = PlatformItems[id]
            /\ file.deleted_items \cap DOMAIN PlatformItems = {}

\* A list returned from the cache alone, one requested id having no record
C21_Witness ==
    /\ platform.fixed
    /\ pc = "done"
    /\ result.ok
    /\ spawned = 0
    /\ result.val # <<>>
    /\ Len(result.val) < Len(item_ids)

\* The positions of an operation in a sequence of file operations
OpsAt(ops, op) == {i \in DOMAIN ops : ops[i] = op}

\* C22: an invocation reads its cache file at most once (not at all when the
\* file or the cache directory is missing) and writes it at most once, after
\* the read, as its last step before it returns; workshop_items writes the
\* item cache exactly when its fetch succeeded and not on the all-cached
\* path.
C22_FileAccessPerInvocation ==
    /\ [](/\ Cardinality(OpsAt(path_io, "read")) <= 1
          /\ Cardinality(OpsAt(path_io, "write")) <= 1
          /\ \A i \in OpsAt(path_io, "write") : i = Len(path_io))
    /\ [][path_io' # path_io /\ OpsAt(path_io', "write") # {} => ppc' = "done"]_vars
    /\ [][(pc = "merge" /\ pc' # "merge") => "write" \in cache_io']_vars
    /\ [][(pc = "planned" /\ pc' = "done") =>
            /\ "write" \notin cache_io'
            /\ file' = file]_vars

\* C23: two invocations overlapping on the cache file. Every change of the
\* file is the write of one invocation and leaves exactly that invocation's
\* complete in-memory snapshot - what it loaded and its own delta, nothing of
\* what the other wrote since - so the file holds the snapshot of whichever
\* wrote last; and each invocation that returns a list returns the records
\* the platform holds for its requested ids, in request order.
C23_LastWriterWins ==
    /\ [][file' # file =>
            \/ /\ pc = "merge"
               /\ written'
               /\ UNCHANGED other
               /\ file'.st = "ok"
               /\ file'.items = cached_items'
               /\ file'.deleted_items = deleted_items'
               /\ DOMAIN file'.items \cup file'.deleted_items
                    \subseteq DOMAIN load_env.fetched_at \cup Range(ids_to_fetch)
            \/ /\ other.pc = "merge"
               /\ other'.written
               /\ UNCHANGED cmdVars
               /\ file'.st = "ok"
               /\ file'.items = other'.cached_items
               /\ file'.deleted_items = other'.deleted_items
               /\ DOMAIN file'.items \cup file'.deleted_items
                    \subseteq DOMAIN other.fetched_at \cup Range(other.ids_to_fetch)]_vars
    /\ []((pc = "done" /\ result.ok) =>
            ItemsOf(result.val) = FinalItems(item_ids, PlatformItems))
    /\ []((other.pc = "done" /\ other.result.ok) =>
            ItemsOf(other.result.val) = FinalItems(other.item_ids, PlatformItems))

\* Both invocations have written before either returned; the second process
\* wrote last and the file lacks an entry that the first had written
C23_Witness ==
    /\ pc = "output"
    /\ written
    /\ other.pc = "output"
    /\ other.written
    /\ file = [st |-> "ok", items |-> other.cached_items,
               deleted_items |-> other.deleted_items, timestamp |-> now]
    /\ \E id \in DOMAIN cached_items : id \notin DOMAIN file.items \cup file.deleted_items

\* C24: a combined run executes every subcommand, in the order given,
\* whatever the earlier ones returned; when it returns, the map holds for
\* every subcommand executed the entry made for it - its output, or
\* {"error": ..} when it failed - under its key; and the combined command
\* returns success.
C24_FailureIsolation ==
    /\ [](proc.command.combined =>
            /\ Len(proc.executed) = proc.idx
            /\ \A i \in DOMAIN proc.executed :
                    proc.executed[i].key = Key(proc.command.commands[i], i - 1))
    /\ []((proc.command.combined /\ proc.phase \in {"return", "exited"}) =>
            /\ Len(proc.executed) = Len(proc.command.commands)
            /\ \A i \in DOMAIN proc.executed :
                    /\ proc.executed[i].key \in DOMAIN proc.results
                    /\ proc.results[proc.executed[i].key] = proc.executed[i].entry
            /\ proc.returned = Ok(ToStringPretty(proc.results)))
    /\ []((proc.command.combined /\ proc.phase = "exited") => proc.exit = 0)

C26_OnePumpPerSignal ==
    /\ [](signals \in 0..QueueCap)
    /\ [][(signals' < signals /\ rx_open') =>
                (signals' = signals - 1 /\ pumping' = pumping + 1)]_vars
    /\ [][pumping' > pumping =>
                /\ pumping = 0
                /\ pumping' = 1
                /\ signals > 0
                /\ signals' = signals - 1]_vars

\* A pump is in progress after an earlier one ran the completion handler,
\* and the worker has sent more signals than the loop has received
C26_Witness ==
    /\ pc = "bridge"
    /\ pumping = 1
    /\ handler = "called"
    /\ signals > 1

\* C27: the worker's send never waits: whenever the worker is at its send,
\* the step that completes the send can be taken, the queue full or not.
C27_NonBlockingSend ==
    wpc = "send" => ENABLED WorkerSend

\* C28: once the worker task has ended no further signal is sent, so the
\* loop pumps at most once for each signal still buffered; the step by which
\* the loop then leaves surfaces the worker's outcome; a worker waiting for
\* room in the queue always leaves the loop a step to take; and with the
\* worker ended the loop ends.
C28_LoopExitAfterCompletion ==
    /\ [][task # <<>> => signals' <= signals]_vars
    /\ [][(pc = "bridge" /\ task # <<>> /\ pc' # "bridge") =>
            IF task[1].join = "panic"
            THEN pc' = "done" /\ result' = Err(TaskError)
            ELSE IF task[1].res.ok
                 THEN pc' = "merge" /\ items_result' = task[1].res.val
                 ELSE pc' = "done" /\ result' = Err(task[1].res.err)]_vars
    /\ [](WorkerBlocked => (pc = "bridge" /\ (pumping > 0 \/ signals > 0)))
    /\ (pc = "bridge" /\ task # <<>>) ~> (pc # "bridge")

\* C29: once the worker has returned the timeout failure, the step in which
\* the completion handler is called changes nothing but the handler's own
\* state: not the worker's outcome, the result channel, the command's result,
\* its locals or the cache file; the loop can leave whether the handler has
\* been called or not; and the command then returns a failure, the timeout
\* unless a pump failed, without writing the file.
C29_LateCompletionDiscarded ==
    /\ [][(task = Joined(Err(TimeoutError)) /\ handler # "called" /\ handler' = "called") =>
            UNCHANGED <<task, rx_inner, wpc, file, fetched_at, cmdVars, signals, rx_open>>]_vars
    /\ []((pc = "bridge" /\ task = Joined(Err(TimeoutError)) /\ pumping = 0) =>
            ENABLED LoopJoin)
    /\ []((pc # "bridge" /\ task = Joined(Err(TimeoutError))) =>
            /\ pc = "done"
            /\ result \in {Err(TimeoutError), Err(RunCallbacksError)}
            /\ ~written)

\* The handler was called after the worker had timed out: nothing is on the
\* result channel, and the command has returned the timeout failure
C29_Witness ==
    /\ pc = "done"
    /\ task = Joined(Err(TimeoutError))
    /\ handler = "called"
    /\ rx_inner = <<>>
    /\ result = Err(TimeoutError)

\* The load of this invocation met a cache file that was missing, undecodable
\* or unreadable (the file is as the load met it until the save)
LoadFailed ==
    /\ BeforeMerge
    /\ load_env # NoLoad
    /\ (file.st # "ok" \/ ~load_env.readable)

\* C30: after a load that met a missing, unreadable or undecodable file,
\* cached_items and deleted_items are empty and ids_to_fetch is the whole
\* request; and the snapshot written after the fetch is the one that the
\* merge makes from an empty snapshot: it holds entries for ids of
\* ids_to_fetch only.
C30_FailOpenLoad ==
    /\ [](LoadFailed =>
            /\ cached_items = EmptyMap
            /\ deleted_items = {}
            /\ ids_to_fetch = item_ids)
    /\ [][(LoadFailed /\ pc = "merge" /\ written') =>
            /\ file' = WorkshopItemCache(
                            InsertItems(EmptyMap, FetchedItems(items_result)),
                            MarkDeleted({}, item_ids, FetchedIds(FetchedItems(items_result))),
                            now)
            /\ (DOMAIN file'.items \cup file'.deleted_items) \subseteq Range(ids_to_fetch)]_vars

\* The fetch has succeeded after a load that could not read a file holding a
\* valid snapshot with a record for a requested id
C30_Witness ==
    /\ pc = "merge"
    /\ LoadFailed
    /\ ~load_env.readable
    /\ SnapshotValid(file, load_env.t)
    /\ Range(item_ids) \cap DOMAIN file.items # {}

\* The failures a run of the bridge can end with
BridgeFailures ==
    {QueryHandleError, SteamApiError, TimeoutError, TaskError, RunCallbacksError}

\* C31: the step by which the command leaves the bridge either goes on to the
\* merge with the result the worker returned, or returns one of the bridge's
\* failures, carrying no list, with the cache file as it was; the file
\* changes only in the save that follows a fetched result; and a command that
\* has returned a bridge failure has not written the file.
C31_FetchFailureLeavesCache ==
    /\ [][(pc = "bridge" /\ pc' # "bridge") =>
            \/ /\ pc' = "merge"
               /\ task # <<>>
               /\ task[1].join = "ok"
               /\ task[1].res.ok
               /\ items_result' = task[1].res.val
               /\ file' = file
            \/ /\ pc' = "done"
               /\ ~result'.ok
               /\ result'.val = <<>>
               /\ result'.err \in BridgeFailures
               /\ file' = file
               /\ fetched_at' = fetched_at
               /\ ~written']_vars
    /\ [][file' # file => (pc = "merge" /\ pc' = "output")]_vars
    /\ []((pc = "done" /\ ~result.ok /\ result.err \in BridgeFailures) =>
            (~written /\ "write" \notin cache_io))

\* The command has returned a bridge failure over a cache file that an
\* earlier invocation wrote
C31_Witness ==
    /\ pc = "done"
    /\ spawned = 1
    /\ ~result.ok
    /\ result.err \in BridgeFailures
    /\ file.st = "ok"
    /\ item_ids[1] \notin DOMAIN file.items \cup file.deleted_items

\* C32: the snapshot in the cache file never has an id both among its
\* records and among its deleted markers (the fetch returns, for a queried
\* id, a record of that id or nothing), and each record is stored under its
\* own id.
C32_Disjointness ==
    file.st = "ok" =>
        /\ DOMAIN file.items \cap file.deleted_items = {}
        /\ \A id \in DOMAIN file.items : file.items[id].published_file_id = id

\* A snapshot written by this invocation on top of a loaded one, holding
\* records and deleted markers
C32_Witness ==
    /\ pc = "output"
    /\ written
    /\ file.st = "ok"
    /\ file.items # EmptyMap
    /\ file.deleted_items # {}
    /\ (DOMAIN file.items \cup file.deleted_items) \ Range(ids_to_fetch) # {}

\* The failures with which app_installation_path returns before its save
EarlyFailures ==
    {Err("Failed to get Steam library paths"), Err("Failed to read manifest file")}

\* C33: app_installation_path scans only after a load that could not use the
\* cache for its app id (not decoded, an hour old or more, or no entry); a
\* load that can use it returns the entry, a path or an error, and leaves
\* every cache file alone; the save writes the scan's result, error or not,
\* under the app id; a call that ends in the scan returns the failure of the
\* library-path lookup or of reading a manifest and leaves the cache file as
\* it was; and every entry of the cache file is a result of a scan, never one
\* of these two failures.
C33_InstallPathResultsCached ==
    /\ [][(cmd = "app_installation_path" /\ ppc = "load" /\ ppc' # "load") =>
            LET f == path_files["app_install_path"]
                usable == /\ pload'.decoded
                          /\ PathSnapshotValid(f, now)
                          /\ app_id \in DOMAIN f.paths
            IN IF usable
               THEN /\ ppc' = "done"
                    /\ presult' = f.paths[app_id]
                    /\ path_files' = path_files
                    /\ "write" \notin Range(path_io')
               ELSE ppc' = "compute"]_vars
    /\ [][(cmd = "app_installation_path" /\ ppc = "save" /\ ppc' # "save") =>
            LET f == path_files'["app_install_path"]
            IN /\ presult' = presult
               /\ presult \in InstallResults
               /\ \/ f = path_files["app_install_path"]
                  \/ f = CorruptPathFile
                  \/ f.st = "ok" /\ f.timestamp = now /\ f.paths[app_id] = presult]_vars
    /\ [][(cmd = "app_installation_path" /\ ppc = "compute" /\ ppc' = "done") =>
            /\ presult' \in EarlyFailures
            /\ path_files'["app_install_path"] = path_files["app_install_path"]
            /\ path_io' = path_io]_vars
    /\ [](\A a \in DOMAIN path_files["app_install_path"].paths :
            path_files["app_install_path"].paths[a] \in InstallResults)

\* app_installation_path has returned an error from its cache
C33_Witness ==
    /\ cmd = "app_installation_path"
    /\ ppc = "done"
    /\ pload.hit
    /\ presult = Err(NotInstalledError)
    /\ path_files["app_install_path"].paths[app_id] = Err(NotInstalledError)

\* C34: the age of a snapshot stamped later than the clock is 0, not a
\* wrapped or negative number; in each of the four caches a decoded snapshot
\* is used exactly while the clock is below timestamp + TTL (24 h for the
\* items, 1 h for the three path caches), so a snapshot stamped later than
\* the clock is used.
C34_ClockSkew ==
    /\ [](\A t \in Times \cup PathTimes, ts \in Times \cup PathTimes :
            ts > t => SaturatingSub(t, ts) = 0)
    /\ []((pc = "planned" /\ file.st = "ok" /\ load_env.readable) =>
            /\ file.timestamp > load_env.t => SnapshotValid(file, load_env.t)
            /\ IF load_env.t < file.timestamp + CacheDurationSecs
               THEN cached_items = file.items /\ deleted_items = file.deleted_items
               ELSE cached_items = EmptyMap /\ deleted_items = {})
    /\ [][(ppc = "load" /\ ppc' # "load" /\ pload'.decoded) =>
            LET f == path_files[PathCacheOf(cmd)]
                held == cmd = "steam_library_paths" \/ app_id \in DOMAIN f.paths
            IN /\ f.timestamp > now => PathSnapshotValid(f, now)
               /\ pload'.hit <=> (held /\ now < f.timestamp + PathCacheDurationSecs)
               /\ pload'.hit =>
                    presult' = IF cmd = "steam_library_paths"
                               THEN Ok(f.paths) ELSE f.paths[app_id]]_vars

\* A path command has answered from a snapshot stamped later than the clock
C34_Witness ==
    /\ ppc = "done"
    /\ pload.decoded
    /\ pload.hit
    /\ path_files[PathCacheOf(cmd)].timestamp > now

====
